---- MODULE Spec2Model ----
(***************************************************************************)
(* State-machine model of the currence prediction-market contract          *)
(* (market/src/lib.rs, market.rs, lmsr.rs, constants.rs).                  *)
(*                                                                         *)
(* The stored state is the Vector<Market> of the Contract.  Every handler  *)
(* is fetch -> mutate a copy -> (maybe) store back; a panic anywhere in a  *)
(* handler aborts the call and the host discards its writes.               *)
(*                                                                         *)
(* Numbers.  TLC integers are 32 bit, so the two numeric types of the      *)
(* program that are wider are modelled at reduced width, with the same     *)
(* rounding rules:                                                         *)
(*   - f64 integers: round-to-nearest-even to F64_MANTISSA_BITS bits       *)
(*     (53 in the program);                                                *)
(*   - f64 fractions (exp, ln, cost): fixed point with FP units per 1.0.   *)
(***************************************************************************)
EXTENDS Integers, Sequences, FiniteSets, TLC

(* ------------------------------ bounds -------------------------------- *)
MaxTime == 1
MaxNumShares == 2
MaxOutstanding == 3
MaxCollateral == 1048576
MaxFees == 60
MaxDrift == 2
F64_MANTISSA_BITS == 1
EXP_TERMS == 8
LN_TERMS == 6
BALANCE_BITS == 21

(* ------------------------- program constants -------------------------- *)
MINIMUM_DEPOSIT == 100
DEFAULT_LIQUIDITY == 50
ROUNDING_DECIMALS == 4

(* ------------------------------ inputs -------------------------------- *)
Accounts == {"alice", "bob"}
Creators == {"alice"}
Tokens == {"usdc", "dai"}
MarketIds == {0}
OutcomeCounts == {0, 2}
DecimalsChoices == {4}
EndTimes == {1}
ResolutionTimes == {1}
FeeBpsChoices == {0, 1}
DepositAmounts == {524288, 1048576}

(* ------------------------------ helpers ------------------------------- *)
RECURSIVE Pow(_, _)
Pow(b, e) == IF e = 0 THEN 1 ELSE b * Pow(b, e - 1)

Abs(x) == IF x < 0 THEN -x ELSE x

RECURSIVE SumSeq(_)
SumSeq(s) == IF s = << >> THEN 0 ELSE Head(s) + SumSeq(Tail(s))

Zeros(n) == [i \in 1..n |-> 0]

(* ------------------------- Balance (u128) ----------------------------- *)
\* Balance is u128 in the program and BALANCE_BITS bits wide here.
U128_LIMIT == Pow(2, BALANCE_BITS)
U128_MAX == U128_LIMIT - 1

PayoutChoices ==
  { <<0, 0>>, <<1, 3>>, <<4000, 6000>>, <<7, 0>>, <<4>>, <<U128_MAX, 5>> }

\* checked_mul(..).unwrap(): ok = FALSE is the panic of the unwrap.
CheckedMul(a, b) == [ok |-> a * b < U128_LIMIT, v |-> a * b]

\* A plain `+`, `+=` or Iterator::sum on Balance.  Whether an overflow panics
\* or wraps is decided by the overflow-checks setting of the build, which the
\* sources do not fix: `wraps` is that setting, and every call is taken under
\* both.
UncheckedAdd(a, b, wraps) ==
  IF a + b < U128_LIMIT THEN [ok |-> TRUE, v |-> a + b]
  ELSE IF wraps THEN [ok |-> TRUE, v |-> (a + b) % U128_LIMIT]
  ELSE [ok |-> FALSE, v |-> 0]

\* iter().sum::<u128>() from the accumulator acc on.
RECURSIVE IterSum(_, _, _)
IterSum(s, acc, wraps) ==
  IF s = << >> THEN [ok |-> TRUE, v |-> acc]
  ELSE IF ~UncheckedAdd(acc, Head(s), wraps).ok THEN [ok |-> FALSE, v |-> 0]
  ELSE IterSum(Tail(s), UncheckedAdd(acc, Head(s), wraps).v, wraps)

(* --------------------------- f64 integers ----------------------------- *)
\* Largest power of two p with p <= n (n >= 1).
RECURSIVE TopBit(_)
TopBit(n) == IF n < 2 THEN 1 ELSE 2 * TopBit(n \div 2)

\* An integer stored in an f64: exact up to 2^F64_MANTISSA_BITS, beyond that
\* rounded to the nearest multiple of the unit in the last place, ties to even.
F64Mag(n) ==
  LET limit == Pow(2, F64_MANTISSA_BITS)
  IN IF n < limit THEN n
     ELSE LET ulp == (2 * TopBit(n)) \div limit
              q == n \div ulp
              r == n % ulp
          IN IF 2 * r < ulp THEN q * ulp
             ELSE IF 2 * r > ulp THEN (q + 1) * ulp
             ELSE IF q % 2 = 0 THEN q * ulp ELSE (q + 1) * ulp

F64(n) == IF n < 0 THEN -F64Mag(-n) ELSE F64Mag(n)

\* f64 addition of two integer-valued doubles: the exact sum, rounded.
F64Add(a, b) == F64(a + b)

(* ------------------------- f64 fractions ------------------------------ *)
FP == 10000 * 1000

\* floor(a * b / FP) without leaving 32 bits (base-10000 limbs).
FPMul(a, b) ==
  LET a1 == a \div 10000
      a0 == a % 10000
      b1 == b \div 10000
      b0 == b % 10000
  IN a1 * b1 * 10 + (((a1 * b0 + a0 * b1) * 10 + ((a0 * b0) \div 1000)) \div 10000)

\* floor(r * 10^k / den) for 0 <= r < den, digit by digit.
RECURSIVE FracDigits(_, _, _)
FracDigits(r, den, k) ==
  IF k = 0 THEN 0
  ELSE ((r * 10) \div den) * Pow(10, k - 1) + FracDigits((r * 10) % den, den, k - 1)

\* floor(num * FP / den), den > 0.
FPDiv(num, den) == (num \div den) * FP + FracDigits(num % den, den, 7)

\* f64::exp by its Taylor series, x in FP units.
RECURSIVE ExpSeries(_, _, _)
ExpSeries(x, term, k) ==
  IF k > EXP_TERMS \/ term = 0 THEN 0
  ELSE term + ExpSeries(x, FPMul(term, x) \div k, k + 1)

Exp(x) == ExpSeries(x, FP, 1)

\* f64::ln by ln s = 2 atanh((s-1)/(s+1)), s > 0 in FP units.
RECURSIVE LnSeries(_, _, _)
LnSeries(zz, pow, k) ==
  IF k > LN_TERMS \/ pow = 0 THEN 0
  ELSE (pow \div (2 * k - 1)) + LnSeries(zz, FPMul(pow, zz), k + 1)

Atanh2(z) == 2 * LnSeries(FPMul(z, z), z, 1)

Ln(s) == Atanh2(FPDiv(s - FP, s + FP))

(* ------------------------------- lmsr --------------------------------- *)
\* volumes: sequence of integer-valued doubles; liquidity: positive integer.
Coefficients(liquidity, volumes) ==
  [i \in 1..Len(volumes) |-> FPDiv(volumes[i], liquidity)]

RECURSIVE CoefficientMax(_, _, _)
CoefficientMax(tmp, i, max) ==
  IF i > Len(tmp) THEN max
  ELSE CoefficientMax(tmp, i + 1, IF tmp[i] > max THEN tmp[i] ELSE max)

WithMax(tmp) == [ret |-> tmp, max |-> CoefficientMax(tmp, 1, 0)]

coefficient(liquidity, volumes) == WithMax(Coefficients(liquidity, volumes))

RECURSIVE shift_exp_sum(_, _)
shift_exp_sum(max, data) ==
  IF data = << >> THEN 0
  ELSE Exp(Head(data) - max) + shift_exp_sum(max, Tail(data))

LnSumOf(c) == Ln(shift_exp_sum(c.max, c.ret)) + c.max

ln_sum(liquidity, volumes) == LnSumOf(coefficient(liquidity, volumes))

cost(liquidity, volumes) == liquidity * ln_sum(liquidity, volumes)

\* compute_price once coefficient and sum.ln() are known.
PricesOf(c, ln_of_sum) ==
  [i \in 1..Len(c.ret) |-> Exp(c.ret[i] - c.max - ln_of_sum)]

PricesWith(c) == PricesOf(c, Ln(shift_exp_sum(c.max, c.ret)))

compute_price(liquidity, volumes) == PricesWith(coefficient(liquidity, volumes))

\* cost at DEFAULT_LIQUIDITY, tabulated once over the share vectors the
\* bounded model can price; cost itself is evaluated anywhere else.
CostTableRange == (0 - 8)..16
CostTable ==
  [v \in UNION {[1..n -> CostTableRange] : n \in OutcomeCounts \ {0}} |->
     cost(DEFAULT_LIQUIDITY, v)]

CostOf(liquidity, volumes) ==
  IF liquidity = DEFAULT_LIQUIDITY /\ volumes \in DOMAIN CostTable
  THEN CostTable[volumes]
  ELSE cost(liquidity, volumes)

estimate(liquidity, origin, index, amount) ==
  CostOf(liquidity, [origin EXCEPT ![index] = F64Add(@, amount)])
    - CostOf(liquidity, origin)

(* ------------------------------ Market -------------------------------- *)
NoneVec == [some |-> FALSE, v |-> << >>]
SomeVec(v) == [some |-> TRUE, v |-> v]

NoTransfer == [some |-> FALSE, to |-> "", amount |-> 0]
Transfer(to, amount) == [some |-> TRUE, to |-> to, amount |-> amount]

Finalized(stage) == stage \in {"Resolved", "Invalid"}

\* The outcome of a method call on a Market value: ok = FALSE is a panic.
Panic(m) ==
  [ok |-> FALSE, m |-> m, ret |-> 0, transfer |-> NoTransfer, base_price |-> 0, fee |-> 0]
Ok(m) ==
  [ok |-> TRUE, m |-> m, ret |-> 0, transfer |-> NoTransfer, base_price |-> 0, fee |-> 0]

MarketNew_IdZero(id, creator, args) ==
  [ id |-> 0,
    collateral_token |-> args.collateral_token,
    collateral_decimals |-> args.collateral_decimals,
    deposited_collateral |-> 0,
    minimum_deposit |-> MINIMUM_DEPOSIT * Pow(10, args.collateral_decimals),
    end_time |-> args.end_time,
    resolution_time |-> args.resolution_time,
    outcomes |-> args.outcomes,
    liquidity |-> DEFAULT_LIQUIDITY,
    shares |-> Zeros(args.outcomes),
    payouts |-> NoneVec,
    oracle |-> creator,
    operator |-> creator,
    stage |-> "Pending",
    fee_owner |-> creator,
    trade_fee_bps |-> args.trade_fee_bps,
    fees_accrued |-> 0,
    accounts |-> [a \in Accounts |-> NoneVec] ]

\* Market::new; args.operator, args.oracle, args.fee_owner and args.liquidity
\* are None (the creator and DEFAULT_LIQUIDITY are taken).
MarketNew(id, creator, args) ==
  [ id |-> id,
    collateral_token |-> args.collateral_token,
    collateral_decimals |-> args.collateral_decimals,
    deposited_collateral |-> 0,
    minimum_deposit |-> MINIMUM_DEPOSIT * Pow(10, args.collateral_decimals),
    end_time |-> args.end_time,
    resolution_time |-> args.resolution_time,
    outcomes |-> args.outcomes,
    liquidity |-> DEFAULT_LIQUIDITY,
    shares |-> Zeros(args.outcomes),
    payouts |-> NoneVec,
    oracle |-> creator,
    operator |-> creator,
    stage |-> "Pending",
    fee_owner |-> creator,
    trade_fee_bps |-> args.trade_fee_bps,
    fees_accrued |-> 0,
    accounts |-> [a \in Accounts |-> NoneVec] ]

\* Market::calculate_prices: the prices in percent, in FP units.
calculate_prices(m) ==
  [i \in 1..Len(m.shares) |-> compute_price(m.liquidity, m.shares)[i] * 100]

validate_NoDeposit(m, now) ==
  /\ m.outcomes > 0
  /\ m.end_time > now
  /\ m.resolution_time > now

validate_NoOutcomes(m, now) ==
  /\ m.end_time > now
  /\ m.resolution_time > now
  /\ m.deposited_collateral >= m.minimum_deposit

validate(m, now) ==
  /\ m.outcomes > 0
  /\ m.end_time > now
  /\ m.resolution_time > now
  /\ m.deposited_collateral >= m.minimum_deposit

assert_stages(m, stages) == m.stage \in stages

assert_stage(m, stage) == m.stage = stage

assert_trading_allowed_NoExpiry(m, now) == assert_stage(m, "Open")

assert_trading_allowed(m, now) ==
  /\ assert_stage(m, "Open")
  /\ now < m.end_time

assert_finalized(m) == Finalized(m.stage)

open(m, now) ==
  IF ~validate(m, now) THEN Panic(m)
  ELSE IF ~assert_stages(m, {"Paused", "Pending"}) THEN Panic(m)
  ELSE Ok([m EXCEPT !.stage = "Open"])

pause(m) ==
  IF ~assert_stage(m, "Open") THEN Panic(m)
  ELSE Ok([m EXCEPT !.stage = "Paused"])

\* `self.deposited_collateral += amount`
deposit_collateral(m, amount, wraps) ==
  IF ~assert_stage(m, "Pending") THEN Panic(m)
  ELSE IF ~UncheckedAdd(m.deposited_collateral, amount, wraps).ok THEN Panic(m)
  ELSE Ok([m EXCEPT !.deposited_collateral = UncheckedAdd(@, amount, wraps).v])

\* direction is "Buy" or "Sell"; outcome_id is 0-based as in the program.
\* Returns [ok, v]: the u32 subtraction collateral_decimals - ROUNDING_DECIMALS
\* underflows (and the power then overflows) below ROUNDING_DECIMALS decimals.
\* (est * 10^ROUNDING_DECIMALS).ceil() for a buy, .floor() for a sell: est is
\* in FP units, so one unit of the rounded value is FP / 10^ROUNDING_DECIMALS.
Rounded(est, direction) ==
  IF direction = "Buy"
  THEN -((-est) \div (FP \div Pow(10, ROUNDING_DECIMALS)))
  ELSE est \div (FP \div Pow(10, ROUNDING_DECIMALS))

calc_price_without_fee(m, outcome_id, num_shares, direction) ==
  IF outcome_id >= Len(m.shares) \/ m.collateral_decimals < ROUNDING_DECIMALS
  THEN [ok |-> FALSE, v |-> 0]
  ELSE
    [ok |-> TRUE,
     v |-> Rounded(Abs(estimate(m.liquidity, m.shares, outcome_id + 1,
                                (IF direction = "Buy" THEN 1 ELSE -1)
                                  * F64(num_shares))),
                   direction)
           * Pow(10, m.collateral_decimals - ROUNDING_DECIMALS)]

calc_fee_BasisPoints(m, base_price) == (base_price * m.trade_fee_bps) \div 10000

\* base_price.checked_div(100).unwrap().checked_mul(trade_fee_bps).unwrap();
\* the products of the model stay below U128_LIMIT.
calc_fee(m, base_price) == (base_price \div 100) * m.trade_fee_bps

\* base_price.checked_add(fee).unwrap() on a priced order: [ok, v].
QuoteWithFee(m, price) ==
  IF ~price.ok THEN [ok |-> FALSE, v |-> 0]
  ELSE [ok |-> price.v + calc_fee(m, price.v) < U128_LIMIT,
        v |-> price.v + calc_fee(m, price.v)]

calc_buy_price(m, outcome_id, num_shares) ==
  QuoteWithFee(m, calc_price_without_fee(m, outcome_id, num_shares, "Buy"))

\* As the source has it: the fee is added to the sell quote, too.
calc_sell_price(m, outcome_id, num_shares) ==
  QuoteWithFee(m, calc_price_without_fee(m, outcome_id, num_shares, "Sell"))

\* fees_accrued.checked_add(amount).unwrap(); the sums of the model stay below
\* U128_LIMIT.
deposit_fees(m, amount) == [m EXCEPT !.fees_accrued = @ + amount]

withdraw_fees_KeepFees(m) ==
  IF ~(m.fees_accrued > 0) THEN Panic(m)
  ELSE [Ok(m) EXCEPT !.transfer = Transfer(m.fee_owner, m.fees_accrued)]

withdraw_fees(m) ==
  IF ~(m.fees_accrued > 0) THEN Panic(m)
  ELSE [Ok([m EXCEPT !.fees_accrued = 0])
          EXCEPT !.transfer = Transfer(m.fee_owner, m.fees_accrued)]

get_or_create_balances(m, account_id) ==
  IF m.accounts[account_id].some THEN m.accounts[account_id].v
  ELSE Zeros(m.outcomes)

\* balances.iter().zip(p.iter()).map(|(b, &p)| b.checked_mul(p).unwrap()).sum()
\* from the accumulator acc on: [ok, v].
RECURSIVE ZipMulSum(_, _, _, _)
ZipMulSum(b, p, acc, wraps) ==
  IF b = << >> \/ p = << >> THEN [ok |-> TRUE, v |-> acc]
  ELSE IF ~CheckedMul(Head(b), Head(p)).ok THEN [ok |-> FALSE, v |-> 0]
  ELSE IF ~UncheckedAdd(acc, Head(b) * Head(p), wraps).ok THEN [ok |-> FALSE, v |-> 0]
  ELSE ZipMulSum(Tail(b), Tail(p),
                 UncheckedAdd(acc, Head(b) * Head(p), wraps).v, wraps)

PayoutOf_Refund(m, balances, wraps) ==
  IF m.payouts.some THEN ZipMulSum(balances, m.payouts.v, 0, wraps)
  ELSE IterSum(balances, 0, wraps)

\* `match &self.payouts { Some(p) => ..., None => 0 }`
PayoutOf(m, balances, wraps) ==
  IF m.payouts.some THEN ZipMulSum(balances, m.payouts.v, 0, wraps)
  ELSE [ok |-> TRUE, v |-> 0]

\* redeem once the payout is computed.
RedeemPaid(m, account_id, payout) ==
  IF ~payout.ok THEN Panic(m)
  ELSE IF ~(payout.v > 0) THEN Panic(m)
  ELSE [Ok(m) EXCEPT !.transfer = Transfer(account_id, payout.v)]

redeem_Burning(m, account_id, wraps) ==
  IF ~assert_finalized(m) THEN Panic(m)
  ELSE IF ~m.accounts[account_id].some THEN Panic(m)
  ELSE IF ~RedeemPaid(m, account_id, PayoutOf(m, m.accounts[account_id].v, wraps)).ok
  THEN Panic(m)
  ELSE [RedeemPaid(m, account_id, PayoutOf(m, m.accounts[account_id].v, wraps))
          EXCEPT !.m = [m EXCEPT !.accounts[account_id] = SomeVec(Zeros(m.outcomes))]]

redeem(m, account_id, wraps) ==
  IF ~assert_finalized(m) THEN Panic(m)
  ELSE IF ~m.accounts[account_id].some THEN Panic(m)
  ELSE RedeemPaid(m, account_id, PayoutOf(m, m.accounts[account_id].v, wraps))

credit(m, now, account_id, outcome_id, num_shares) ==
  IF ~assert_trading_allowed(m, now) THEN Panic(m)
  ELSE IF outcome_id >= m.outcomes THEN Panic(m)
  ELSE
    LET balances == get_or_create_balances(m, account_id)
        new == [balances EXCEPT ![outcome_id + 1] = @ + num_shares]
    IN Ok([m EXCEPT !.accounts[account_id] = SomeVec(new),
                    !.shares[outcome_id + 1] = F64Add(@, F64(num_shares))])

debit_Saturating(m, now, account_id, outcome_id, num_shares) ==
  IF ~assert_trading_allowed(m, now) THEN Panic(m)
  ELSE IF outcome_id >= m.outcomes THEN Panic(m)
  ELSE
    LET balances == get_or_create_balances(m, account_id)
        old == balances[outcome_id + 1]
        new == [balances EXCEPT
                  ![outcome_id + 1] = IF old < num_shares THEN 0 ELSE old - num_shares]
    IN Ok([m EXCEPT !.accounts[account_id] = SomeVec(new),
                    !.shares[outcome_id + 1] = F64Add(@, -F64(num_shares))])

debit(m, now, account_id, outcome_id, num_shares) ==
  IF ~assert_trading_allowed(m, now) THEN Panic(m)
  ELSE IF outcome_id >= m.outcomes THEN Panic(m)
  ELSE
    LET balances == get_or_create_balances(m, account_id)
        old == balances[outcome_id + 1]
    IN IF old < num_shares THEN Panic(m)
       ELSE
         LET new == [balances EXCEPT ![outcome_id + 1] = old - num_shares]
         IN Ok([m EXCEPT !.accounts[account_id] = SomeVec(new),
                         !.shares[outcome_id + 1] = F64Add(@, -F64(num_shares))])

outcome_balance_ZeroDefault(m, account_id, outcome_id) ==
  IF ~m.accounts[account_id].some \/ outcome_id >= Len(m.accounts[account_id].v)
  THEN [some |-> TRUE, v |-> 0]
  ELSE [some |-> TRUE, v |-> m.accounts[account_id].v[outcome_id + 1]]

\* Option<Balance>: [some, v] with v the quantity.
outcome_balance(m, account_id, outcome_id) ==
  IF ~m.accounts[account_id].some \/ outcome_id >= Len(m.accounts[account_id].v)
  THEN [some |-> FALSE, v |-> 0]
  ELSE [some |-> TRUE, v |-> m.accounts[account_id].v[outcome_id + 1]]

(* ------------------------- internal methods --------------------------- *)
PaymentTooSmall_Never(amount, cost_) == FALSE

\* `if amount < cost { panic!("Not enough for purchase!") }`
PaymentTooSmall(amount, cost_) == amount < cost_

SlippageExceeded_Never(sell_amount, amount) == FALSE

\* `if sell_amount < amount { panic!("Not executing transaction due to slippage") }`
SlippageExceeded(sell_amount, amount) == sell_amount < amount

\* internal_buy once base_price and fee are known.
BuyAt(m, now, sender_id, amount, num_shares, outcome_id, base_price, fee) ==
  IF PaymentTooSmall(amount, base_price + fee)
  THEN [Panic(m) EXCEPT !.base_price = base_price, !.fee = fee]
  ELSE IF ~credit(m, now, sender_id, outcome_id, num_shares).ok THEN Panic(m)
  ELSE [Ok(deposit_fees(credit(m, now, sender_id, outcome_id, num_shares).m, fee))
          EXCEPT !.ret = amount - (base_price + fee),
                 !.base_price = base_price,
                 !.fee = fee]

BuyPriced(m, now, sender_id, amount, num_shares, outcome_id, price) ==
  IF ~price.ok THEN Panic(m)
  ELSE BuyAt(m, now, sender_id, amount, num_shares, outcome_id,
             price.v, calc_fee(m, price.v))

internal_buy(m, now, sender_id, amount, num_shares, outcome_id) ==
  IF ~assert_trading_allowed(m, now) THEN Panic(m)
  ELSE IF ~(m.outcomes > outcome_id) THEN Panic(m)
  ELSE BuyPriced(m, now, sender_id, amount, num_shares, outcome_id,
                 calc_price_without_fee(m, outcome_id, num_shares, "Buy"))

\* internal_sell once base_price and fee are known.
SellAt(m, now, sender_id, amount, num_shares, outcome_id, base_price, fee) ==
  IF base_price - fee < 0 THEN Panic(m)    \* checked_sub(fee).unwrap()
  ELSE IF SlippageExceeded(base_price - fee, amount)
  THEN [Panic(m) EXCEPT !.base_price = base_price, !.fee = fee]
  ELSE IF ~debit(m, now, sender_id, outcome_id, num_shares).ok
  THEN [Panic(m) EXCEPT !.base_price = base_price, !.fee = fee]
  ELSE [Ok(deposit_fees(debit(m, now, sender_id, outcome_id, num_shares).m, fee))
          EXCEPT !.transfer = Transfer(sender_id, base_price - fee),
                 !.base_price = base_price,
                 !.fee = fee]

SellPriced(m, now, sender_id, amount, num_shares, outcome_id, price) ==
  IF ~price.ok THEN Panic(m)
  ELSE SellAt(m, now, sender_id, amount, num_shares, outcome_id,
              price.v, calc_fee(m, price.v))

internal_sell(m, now, sender_id, amount, num_shares, outcome_id) ==
  IF ~assert_trading_allowed(m, now) THEN Panic(m)
  ELSE IF ~(m.outcomes > outcome_id) THEN Panic(m)
  ELSE SellPriced(m, now, sender_id, amount, num_shares, outcome_id,
                  calc_price_without_fee(m, outcome_id, num_shares, "Sell"))

(* ----------------------------- Contract ------------------------------- *)
VARIABLES
  markets,   \* Contract.markets: the stored Market records, id = index - 1
  now,       \* env::block_timestamp()
  lastOp,    \* the receipt of the call that has just run: its arguments,
             \* whether it panicked, what it returned and the transfer it
             \* requested; NoOp once the receipt has been delivered
  lmsrCall   \* a direct call of the pub functions of lmsr.rs: its arguments
             \* and, once it has run, its results; NoCall in the contract

vars == <<markets, now, lastOp, lmsrCall>>

NoCall == [fn |-> "none"]

NoOp ==
  [op |-> "none", ok |-> TRUE, market_id |-> 0, account |-> "", outcome_id |-> 0,
   num_shares |-> 0, amount |-> 0, payouts |-> << >>,
   ret |-> 0, transfer |-> NoTransfer, base_price |-> 0, fee |-> 0]

Idle == lastOp = NoOp

\* A call addressed to a stored market, taken when no receipt is pending.
Exists(market_id) == Idle /\ market_id < Len(markets)

\* Contract::get_market
get_market(market_id) == markets[market_id + 1]

resolve_stage_ok_Any(m) == TRUE

\* `assert!(market.stage == Stage::Paused || market.stage == Stage::Open)`
resolve_stage_ok(m) == m.stage = "Paused" \/ m.stage = "Open"

\* the match on payouts.iter().sum::<u128>()
ResolveBySum(m, payouts, s) ==
  IF s = m.collateral_decimals
  THEN Ok([m EXCEPT !.payouts = SomeVec(payouts), !.stage = "Resolved"])
  ELSE IF s = 0
  THEN Ok([m EXCEPT !.payouts = NoneVec, !.stage = "Invalid"])
  ELSE Panic(m)

resolve_market(m, payouts, wraps) ==
  IF ~resolve_stage_ok(m) THEN Panic(m)
  ELSE IF m.outcomes # Len(payouts) THEN Panic(m)
  ELSE IF ~IterSum(payouts, 0, wraps).ok THEN Panic(m)
  ELSE ResolveBySum(m, payouts, IterSum(payouts, 0, wraps).v)

RECURSIVE SumOver(_, _)
SumOver(f, S) ==
  IF S = {} THEN 0
  ELSE LET a == CHOOSE e \in S : TRUE IN f[a] + SumOver(f, S \ {a})

\* Sum over all accounts of balance[outcome_id] (outcome_id 0-based).
LedgerTotal(m, outcome_id) ==
  SumOver([a \in Accounts |->
             IF m.accounts[a].some THEN m.accounts[a].v[outcome_id + 1] ELSE 0],
          Accounts)

Outstanding(m) ==
  SumOver([o \in 0..(m.outcomes - 1) |-> LedgerTotal(m, o)], 0..(m.outcomes - 1))

\* The bounds of the model: shares outstanding, collateral and fees held, and
\* how far the f64 aggregate has drifted from the ledger.
WithinBounds(m) ==
  /\ Outstanding(m) <= MaxOutstanding
  /\ m.fees_accrued <= MaxFees
  /\ m.deposited_collateral <= MaxCollateral
  /\ \A o \in 0..(m.outcomes - 1) :
       Abs(LedgerTotal(m, o) - m.shares[o + 1]) <= MaxDrift

Finish_TransferBeforeCommit(op, call, stores, r) ==
  /\ r.ok => WithinBounds(r.m)
  /\ markets' = IF r.ok /\ stores /\ ~r.transfer.some
                THEN [markets EXCEPT ![call.market_id + 1] = r.m]
                ELSE markets
  /\ lastOp' = [call EXCEPT !.op = op, !.ok = r.ok, !.ret = r.ret,
                            !.transfer = r.transfer,
                            !.base_price = r.base_price, !.fee = r.fee]
  /\ UNCHANGED <<now, lmsrCall>>

Finish_FirstSlot(op, call, stores, r) ==
  /\ r.ok => WithinBounds(r.m)
  /\ markets' = IF r.ok /\ stores
                THEN [markets EXCEPT ![1] = r.m]
                ELSE markets
  /\ lastOp' = [call EXCEPT !.op = op, !.ok = r.ok, !.ret = r.ret,
                            !.transfer = r.transfer,
                            !.base_price = r.base_price, !.fee = r.fee]
  /\ UNCHANGED <<now, lmsrCall>>

\* The end of a handler with outcome r: the market is stored back with
\* markets.replace when `stores` and the call did not panic, and the receipt is
\* written.
Finish(op, call, stores, r) ==
  /\ r.ok => WithinBounds(r.m)
  /\ markets' = IF r.ok /\ stores
                THEN [markets EXCEPT ![call.market_id + 1] = r.m]
                ELSE markets
  /\ lastOp' = [call EXCEPT !.op = op, !.ok = r.ok, !.ret = r.ret,
                            !.transfer = r.transfer,
                            !.base_price = r.base_price, !.fee = r.fee]
  /\ UNCHANGED <<now, lmsrCall>>

Call(market_id, account) ==
  [NoOp EXCEPT !.market_id = market_id, !.account = account]

Trade(market_id, account, outcome_id, num_shares, amount) ==
  [NoOp EXCEPT !.market_id = market_id, !.account = account,
               !.outcome_id = outcome_id, !.num_shares = num_shares,
               !.amount = amount]

Init ==
  /\ markets = << >>
  /\ now = 0
  /\ lastOp = NoOp
  /\ lmsrCall = NoCall

CreateArgs ==
  [ collateral_token : {"usdc"},
    collateral_decimals : DecimalsChoices,
    end_time : EndTimes,
    resolution_time : ResolutionTimes,
    trade_fee_bps : FeeBpsChoices,
    outcomes : OutcomeCounts ]

\* The arguments the calls are made with.
Inputs ==
  [ ids |-> MarketIds,
    creators |-> Creators,
    accounts |-> Accounts,
    tokens |-> Tokens,
    create_args |-> CreateArgs,
    outcome_ids |-> 0..2,
    shares |-> 0..MaxNumShares,
    deposits |-> DepositAmounts,
    payouts |-> PayoutChoices ]

CreateMarketOn(in) ==
  \E signer \in in.creators, args \in in.create_args :
    /\ Idle
    /\ Len(markets) < Cardinality(in.ids)
    /\ markets' = Append(markets, MarketNew(Len(markets), signer, args))
    /\ lastOp' = [NoOp EXCEPT !.op = "create_market", !.account = signer,
                              !.market_id = Len(markets), !.ret = Len(markets)]
    /\ UNCHANGED <<now, lmsrCall>>

open_market_AnySigner(m, now_, signer) == open(m, now_)

open_market(m, now_, signer) ==
  IF m.operator # signer THEN Panic(m) ELSE open(m, now_)

OpenMarketOn(in) ==
  \E signer \in in.accounts, market_id \in in.ids :
    /\ Exists(market_id)
    /\ Finish("open_market", Call(market_id, signer), TRUE,
              open_market(get_market(market_id), now, signer))

\* pause_market mutates its copy of the market and returns without
\* markets.replace: the stored market is left as it was.
PauseMarketOn(in) ==
  \E signer \in in.accounts, market_id \in in.ids :
    /\ Exists(market_id)
    /\ Finish("pause_market", Call(market_id, signer), FALSE,
              pause(get_market(market_id)))

ResolveMarketOn(in) ==
  \E signer \in in.accounts, market_id \in in.ids, payouts \in in.payouts,
     wraps \in BOOLEAN :
    /\ Exists(market_id)
    /\ Finish("resolve_market",
              [Call(market_id, signer) EXCEPT !.payouts = payouts], TRUE,
              resolve_market(get_market(market_id), payouts, wraps))

\* Calls paid in a token that is not the market's collateral all stop at the
\* first assertion: one such call per handler is enumerated.
OneWrongToken(token_id, sender_id, outcome_id, num_shares) ==
  token_id # "usdc" => (sender_id = "alice" /\ outcome_id = 0 /\ num_shares = 1)

Around(c) == {c, c + 1} \cup (IF c > 0 THEN {c - 1} ELSE {})

\* Payments around the quoted cost (base_price + fee).
Payments(m, price) == Around(price.v + calc_fee(m, price.v))

\* Minimum acceptable proceeds around the quoted proceeds (base_price - fee).
MinAcceptable(m, price) == Around(price.v - calc_fee(m, price.v))

buy(m, now_, sender_id, token_id, amount, num_shares, outcome_id) ==
  IF m.collateral_token # token_id THEN Panic(m)
  ELSE internal_buy(m, now_, sender_id, amount, num_shares, outcome_id)

sell(m, now_, sender_id, token_id, amount, num_shares, outcome_id) ==
  IF m.collateral_token # token_id THEN Panic(m)
  ELSE internal_sell(m, now_, sender_id, amount, num_shares, outcome_id)

deposit(m, token_id, amount, wraps) ==
  IF m.collateral_token # token_id THEN Panic(m)
  ELSE deposit_collateral(m, amount, wraps)

BuyOn(in) ==
  \E sender_id \in in.accounts, token_id \in in.tokens, market_id \in in.ids,
     outcome_id \in in.outcome_ids, num_shares \in in.shares :
    /\ Exists(market_id)
    /\ OneWrongToken(token_id, sender_id, outcome_id, num_shares)
    /\ \E amount \in Payments(get_market(market_id),
                              calc_price_without_fee(get_market(market_id),
                                                     outcome_id, num_shares, "Buy")) :
         Finish("buy", Trade(market_id, sender_id, outcome_id, num_shares, amount),
                TRUE,
                buy(get_market(market_id), now, sender_id, token_id, amount,
                    num_shares, outcome_id))

SellOn(in) ==
  \E sender_id \in in.accounts, token_id \in in.tokens, market_id \in in.ids,
     outcome_id \in in.outcome_ids, num_shares \in in.shares :
    /\ Exists(market_id)
    /\ OneWrongToken(token_id, sender_id, outcome_id, num_shares)
    /\ \E amount \in MinAcceptable(get_market(market_id),
                                   calc_price_without_fee(get_market(market_id),
                                                          outcome_id, num_shares, "Sell")) :
         Finish("sell", Trade(market_id, sender_id, outcome_id, num_shares, amount),
                TRUE,
                sell(get_market(market_id), now, sender_id, token_id, amount,
                     num_shares, outcome_id))

DepositOn(in) ==
  \E sender_id \in in.creators, token_id \in in.tokens, market_id \in in.ids,
     amount \in in.deposits, wraps \in BOOLEAN :
    /\ Exists(market_id)
    /\ Finish("deposit", [Call(market_id, sender_id) EXCEPT !.amount = amount], TRUE,
              deposit(get_market(market_id), token_id, amount, wraps))

WithdrawFeesOn(in) ==
  \E signer \in in.accounts, market_id \in in.ids :
    /\ Exists(market_id)
    /\ Finish("withdraw_fees", Call(market_id, signer), TRUE,
              withdraw_fees(get_market(market_id)))

\* Market::redeem, Market::credit and Market::debit have no Contract entry
\* point; they are called on the market directly, as tests::buy_shares does.
RedeemOn(in) ==
  \E account_id \in in.accounts, market_id \in in.ids, wraps \in BOOLEAN :
    /\ Exists(market_id)
    /\ Finish("redeem", Call(market_id, account_id), TRUE,
              redeem(get_market(market_id), account_id, wraps))

CreditOn(in) ==
  \E account_id \in in.accounts, market_id \in in.ids,
     outcome_id \in in.outcome_ids, num_shares \in in.shares :
    /\ Exists(market_id)
    /\ Finish("credit", Trade(market_id, account_id, outcome_id, num_shares, 0), TRUE,
              credit(get_market(market_id), now, account_id, outcome_id, num_shares))

DebitOn(in) ==
  \E account_id \in in.accounts, market_id \in in.ids,
     outcome_id \in in.outcome_ids, num_shares \in in.shares :
    /\ Exists(market_id)
    /\ Finish("debit", Trade(market_id, account_id, outcome_id, num_shares, 0), TRUE,
              debit(get_market(market_id), now, account_id, outcome_id, num_shares))

CreateMarket == CreateMarketOn(Inputs)

OpenMarket == OpenMarketOn(Inputs)

PauseMarket == PauseMarketOn(Inputs)

ResolveMarket == ResolveMarketOn(Inputs)

Buy == BuyOn(Inputs)

Sell == SellOn(Inputs)

Deposit == DepositOn(Inputs)

WithdrawFees == WithdrawFeesOn(Inputs)

Redeem == RedeemOn(Inputs)

Credit == CreditOn(Inputs)

Debit == DebitOn(Inputs)

\* The block timestamp advances between calls.
Tick ==
  /\ Idle
  /\ now < MaxTime
  /\ now' = now + 1
  /\ UNCHANGED <<markets, lastOp, lmsrCall>>

\* The transaction ends: its receipt (return value, transfer request) leaves
\* the contract, whose stored state is what the call left.  No handler chains
\* a callback on ft_transfer: whether the transfer later succeeds reaches no
\* code of the contract.
Deliver ==
  \E transfer_succeeds \in BOOLEAN :
    /\ ~Idle
    /\ lastOp' = NoOp
    /\ UNCHANGED <<markets, now, lmsrCall>>

Next ==
  \/ CreateMarket
  \/ OpenMarket
  \/ PauseMarket
  \/ ResolveMarket
  \/ Buy
  \/ Sell
  \/ Deposit
  \/ WithdrawFees
  \/ Redeem
  \/ Credit
  \/ Debit
  \/ Tick
  \/ Deliver

Spec == Init /\ [][Next]_vars

(* ------------------------ lmsr called directly ----------------------- *)
\* cost and compute_price are pub functions of f64 arguments: they are
\* called here on liquidities and volume vectors of either sign.
LmsrLiquidities == {50, 100}
LmsrVolumes == (0 - 4)..4
LmsrVectors == [1..2 -> LmsrVolumes]

InitLmsr ==
  /\ markets = << >>
  /\ now = 0
  /\ lastOp = NoOp
  /\ lmsrCall \in [fn : {"cost", "compute_price"}, liquidity : LmsrLiquidities,
                    volumes : LmsrVectors, done : {FALSE},
                    max : {0}, result : {0}, prices : {<< >>}]

CostCall ==
  /\ lmsrCall.fn = "cost"
  /\ ~lmsrCall.done
  /\ lmsrCall' =
       [lmsrCall EXCEPT
          !.done = TRUE,
          !.max = coefficient(lmsrCall.liquidity, lmsrCall.volumes).max,
          !.result = cost(lmsrCall.liquidity, lmsrCall.volumes)]
  /\ UNCHANGED <<markets, now, lastOp>>

ComputePriceCall ==
  /\ lmsrCall.fn = "compute_price"
  /\ ~lmsrCall.done
  /\ lmsrCall' =
       [lmsrCall EXCEPT
          !.done = TRUE,
          !.max = coefficient(lmsrCall.liquidity, lmsrCall.volumes).max,
          !.prices = compute_price(lmsrCall.liquidity, lmsrCall.volumes)]
  /\ UNCHANGED <<markets, now, lastOp>>

NextLmsr ==
  \/ CostCall
  \/ ComputePriceCall

SpecLmsr == InitLmsr /\ [][NextLmsr]_vars

(* --------------------------- two markets ------------------------------ *)
\* The same contract holding up to two markets, called with fewer arguments:
\* one trader, one outcome traded, one share at a time.
TwoMarketIds == {0, 1}

TwoMarketInputs ==
  [ ids |-> TwoMarketIds,
    creators |-> Creators,
    accounts |-> {"alice"},
    tokens |-> Tokens,
    create_args |-> {a \in CreateArgs : a.outcomes = 2 /\ a.trade_fee_bps = 1},
    outcome_ids |-> {0},
    shares |-> {1},
    deposits |-> {1048576},
    payouts |-> { <<0, 0>>, <<1, 3>>, <<7, 0>> } ]

NextMarkets ==
  \/ CreateMarketOn(TwoMarketInputs)
  \/ OpenMarketOn(TwoMarketInputs)
  \/ PauseMarketOn(TwoMarketInputs)
  \/ ResolveMarketOn(TwoMarketInputs)
  \/ BuyOn(TwoMarketInputs)
  \/ SellOn(TwoMarketInputs)
  \/ DepositOn(TwoMarketInputs)
  \/ WithdrawFeesOn(TwoMarketInputs)
  \/ RedeemOn(TwoMarketInputs)
  \/ CreditOn(TwoMarketInputs)
  \/ DebitOn(TwoMarketInputs)
  \/ Tick
  \/ Deliver

SpecMarkets == Init /\ [][NextMarkets]_vars

(* ------------------------------ claims -------------------------------- *)
\* The market a receipt is about, before (Pre) and after (Post) the call.
Pre(op) == markets[op.market_id + 1]
Post(op) == markets'[op.market_id + 1]

TradingOps == {"buy", "sell", "credit", "debit"}

Tradable(m, t) == m.stage = "Open" /\ t < m.end_time

Held(m, account_id, outcome_id) ==
  get_or_create_balances(m, account_id)[outcome_id + 1]

\* C1: for every market and every outcome i, the aggregate shares[i] equals
\* the sum over all accounts of balance[i].
C1_SharesEqualLedger ==
  \A i \in 1..Len(markets) :
    \A o \in 0..(markets[i].outcomes - 1) :
      markets[i].shares[o + 1] = LedgerTotal(markets[i], o)

\* C2: once a stored market is Finalized (Resolved or Invalid), no call
\* changes its stage or its payout vector again.
C2_FinalizedIsFinal ==
  [][\A i \in 1..Len(markets) :
       Finalized(markets[i].stage) =>
         /\ markets'[i].stage = markets[i].stage
         /\ markets'[i].payouts = markets[i].payouts]_vars

\* A resolve_market with an all-zero payout vector (accepted on any Open
\* market) was rejected on a market that is Resolved.
C2_Witness ==
  /\ lastOp.op = "resolve_market"
  /\ ~lastOp.ok
  /\ lastOp.payouts = <<0, 0>>
  /\ markets[lastOp.market_id + 1].stage = "Resolved"
  /\ markets[lastOp.market_id + 1].payouts.some

\* C3: resolve_market(payouts) on an Open or Paused market: payouts summing
\* to 10^collateral_decimals make it Resolved with that vector stored; payouts
\* summing to 0 make it Invalid with no vector stored; any other sum is
\* rejected with stage and payouts unchanged; so every Resolved market's
\* stored payouts sum to 10^collateral_decimals.
C3_ResolveByPayoutSum ==
  [][(/\ lastOp'.op = "resolve_market"
      /\ Pre(lastOp').stage \in {"Open", "Paused"}
      /\ Len(lastOp'.payouts) = Pre(lastOp').outcomes)
     => /\ IF SumSeq(lastOp'.payouts) = Pow(10, Pre(lastOp').collateral_decimals)
           THEN /\ Post(lastOp').stage = "Resolved"
                /\ Post(lastOp').payouts = SomeVec(lastOp'.payouts)
           ELSE IF SumSeq(lastOp'.payouts) = 0
           THEN /\ Post(lastOp').stage = "Invalid"
                /\ Post(lastOp').payouts = NoneVec
           ELSE /\ ~lastOp'.ok
                /\ Post(lastOp').stage = Pre(lastOp').stage
                /\ Post(lastOp').payouts = Pre(lastOp').payouts
        /\ Post(lastOp').stage = "Resolved" =>
             SumSeq(Post(lastOp').payouts.v)
               = Pow(10, Post(lastOp').collateral_decimals)]_vars

\* C4: buy, sell, credit or debit called while the stage is not Open, or when
\* the current time is not strictly before end_time, fails and changes nothing
\* of the stored markets.
C4_NoTradingUnlessOpenAndUnexpired ==
  [][(/\ lastOp'.op \in TradingOps
      /\ ~Tradable(Pre(lastOp'), now))
     => (~lastOp'.ok /\ markets' = markets)]_vars

\* A credit with a valid outcome index was rejected on an Open market whose
\* end_time has been reached.
C4_Witness ==
  /\ lastOp.op = "credit"
  /\ ~lastOp.ok
  /\ lastOp.outcome_id < markets[lastOp.market_id + 1].outcomes
  /\ markets[lastOp.market_id + 1].stage = "Open"
  /\ now >= markets[lastOp.market_id + 1].end_time

\* C5: a pause_market that succeeds on an Open market leaves the stored
\* market's stage Paused.
C5_PauseStoresPaused ==
  (lastOp.op = "pause_market" /\ lastOp.ok)
    => markets[lastOp.market_id + 1].stage = "Paused"

\* The cost a buy is charged in market m: base_price + fee.
BuyCost(m, outcome_id, num_shares) ==
  calc_price_without_fee(m, outcome_id, num_shares, "Buy").v
    + calc_fee(m, calc_price_without_fee(m, outcome_id, num_shares, "Buy").v)

\* The proceeds of a sell in market m: base_price - fee.
SellProceeds(m, outcome_id, num_shares) ==
  calc_price_without_fee(m, outcome_id, num_shares, "Sell").v
    - calc_fee(m, calc_price_without_fee(m, outcome_id, num_shares, "Sell").v)

\* C6: a buy whose payment is strictly less than cost = base_price + fee
\* fails and leaves balances, aggregate shares and fees_accrued as they were.
C6_UnderpaidBuyRejected ==
  [][(/\ lastOp'.op = "buy"
      /\ lastOp'.outcome_id < Pre(lastOp').outcomes
      /\ lastOp'.amount
           < BuyCost(Pre(lastOp'), lastOp'.outcome_id, lastOp'.num_shares))
     => /\ ~lastOp'.ok
        /\ Post(lastOp').accounts = Pre(lastOp').accounts
        /\ Post(lastOp').shares = Pre(lastOp').shares
        /\ Post(lastOp').fees_accrued = Pre(lastOp').fees_accrued]_vars

\* A buy on an Open, unexpired market, priced at a positive base_price, was
\* rejected with a payment below base_price + fee.
C6_Witness ==
  /\ lastOp.op = "buy"
  /\ ~lastOp.ok
  /\ Tradable(markets[lastOp.market_id + 1], now)
  /\ lastOp.base_price > 0
  /\ lastOp.amount < lastOp.base_price + lastOp.fee

\* C7: a successful buy raises the buyer's balance[outcome] and the aggregate
\* shares[outcome] by exactly num_shares, raises fees_accrued by exactly fee,
\* changes no other balance, and returns change = payment - cost.
C7_BuyEffect ==
  [][(lastOp'.op = "buy" /\ lastOp'.ok)
     => /\ Held(Post(lastOp'), lastOp'.account, lastOp'.outcome_id)
             = Held(Pre(lastOp'), lastOp'.account, lastOp'.outcome_id)
                 + lastOp'.num_shares
        /\ Post(lastOp').shares[lastOp'.outcome_id + 1]
             = Pre(lastOp').shares[lastOp'.outcome_id + 1] + lastOp'.num_shares
        /\ Post(lastOp').fees_accrued = Pre(lastOp').fees_accrued + lastOp'.fee
        /\ \A a \in Accounts, o \in 0..(Pre(lastOp').outcomes - 1) :
             (a # lastOp'.account \/ o # lastOp'.outcome_id)
               => Held(Post(lastOp'), a, o) = Held(Pre(lastOp'), a, o)
        /\ lastOp'.ret
             = lastOp'.amount
                 - BuyCost(Pre(lastOp'), lastOp'.outcome_id, lastOp'.num_shares)]_vars

\* C8: a sell whose proceeds base_price - fee are strictly less than
\* min_acceptable fails, leaves balances, aggregate shares and fees_accrued as
\* they were, and requests no transfer.
C8_SlippedSellRejected ==
  [][(/\ lastOp'.op = "sell"
      /\ lastOp'.outcome_id < Pre(lastOp').outcomes
      /\ SellProceeds(Pre(lastOp'), lastOp'.outcome_id, lastOp'.num_shares)
           < lastOp'.amount)
     => /\ ~lastOp'.ok
        /\ ~lastOp'.transfer.some
        /\ Post(lastOp').accounts = Pre(lastOp').accounts
        /\ Post(lastOp').shares = Pre(lastOp').shares
        /\ Post(lastOp').fees_accrued = Pre(lastOp').fees_accrued]_vars

\* A sell on an Open, unexpired market by a seller holding the shares was
\* rejected because its proceeds were below min_acceptable.
C8_Witness ==
  /\ lastOp.op = "sell"
  /\ ~lastOp.ok
  /\ Tradable(markets[lastOp.market_id + 1], now)
  /\ lastOp.base_price > 0
  /\ lastOp.base_price - lastOp.fee < lastOp.amount
  /\ lastOp.num_shares > 0
  /\ Held(markets[lastOp.market_id + 1], lastOp.account, lastOp.outcome_id)
       >= lastOp.num_shares

\* C9: a successful sell lowers the seller's balance[outcome] and the
\* aggregate shares[outcome] by exactly num_shares, raises fees_accrued by
\* exactly fee, and requests one transfer to the seller of
\* sell_amount = base_price - fee >= min_acceptable.
C9_SellEffect ==
  [][(lastOp'.op = "sell" /\ lastOp'.ok)
     => /\ Held(Post(lastOp'), lastOp'.account, lastOp'.outcome_id)
             = Held(Pre(lastOp'), lastOp'.account, lastOp'.outcome_id)
                 - lastOp'.num_shares
        /\ Post(lastOp').shares[lastOp'.outcome_id + 1]
             = Pre(lastOp').shares[lastOp'.outcome_id + 1] - lastOp'.num_shares
        /\ Post(lastOp').fees_accrued = Pre(lastOp').fees_accrued + lastOp'.fee
        /\ lastOp'.transfer
             = Transfer(lastOp'.account,
                        SellProceeds(Pre(lastOp'), lastOp'.outcome_id,
                                     lastOp'.num_shares))
        /\ lastOp'.transfer.amount >= lastOp'.amount]_vars

\* C10: a debit or sell of more shares of an outcome than the account holds
\* (an account with no record holds none) fails and changes nothing of the
\* stored markets, and no balance is ever negative.
C10_OverdrawRejected ==
  [][/\ (/\ lastOp'.op \in {"debit", "sell"}
         /\ lastOp'.outcome_id < Pre(lastOp').outcomes
         /\ lastOp'.num_shares
              > Held(Pre(lastOp'), lastOp'.account, lastOp'.outcome_id))
        => (~lastOp'.ok /\ ~lastOp'.transfer.some /\ markets' = markets)
     /\ \A i \in 1..Len(markets'), a \in Accounts :
          \A k \in 1..Len(markets'[i].accounts[a].v) :
            markets'[i].accounts[a].v[k] >= 0]_vars

\* A debit on an Open, unexpired market by an account with no record, of a
\* positive number of shares of a valid outcome, was rejected.
C10_Witness ==
  /\ lastOp.op = "debit"
  /\ ~lastOp.ok
  /\ Tradable(markets[lastOp.market_id + 1], now)
  /\ lastOp.outcome_id < markets[lastOp.market_id + 1].outcomes
  /\ lastOp.num_shares > 0
  /\ ~markets[lastOp.market_id + 1].accounts[lastOp.account].some

\* What the claim requires of a market for open to succeed at time t.
OpenAllowed(m, t) ==
  /\ m.stage \in {"Pending", "Paused"}
  /\ m.outcomes > 0
  /\ m.end_time > t
  /\ m.resolution_time > t
  /\ m.deposited_collateral >= m.minimum_deposit

\* C11: open moves a market to Open only from Pending or Paused and only when
\* outcome count > 0, end_time and resolution_time are strictly after the
\* current time and deposited_collateral >= minimum_deposit; in every other
\* case (a Paused market whose end_time has passed included) open fails and
\* the stage is unchanged.  Paused markets are the copies Market::pause
\* makes of the stored Open markets.
C11_OpenOnlyWhenValid ==
  [][/\ lastOp'.op = "open_market"
          => IF OpenAllowed(Pre(lastOp'), now)
             THEN lastOp'.account = Pre(lastOp').operator
                    => (lastOp'.ok /\ Post(lastOp').stage = "Open")
             ELSE ~lastOp'.ok /\ Post(lastOp').stage = Pre(lastOp').stage
     /\ \A i \in 1..Len(markets) :
          /\ (markets[i].stage # "Open" /\ markets'[i].stage = "Open")
               => (lastOp'.op = "open_market" /\ lastOp'.market_id = i - 1)
          /\ pause(markets[i]).ok
               => IF OpenAllowed(pause(markets[i]).m, now)
                  THEN /\ open(pause(markets[i]).m, now).ok
                       /\ open(pause(markets[i]).m, now).m.stage = "Open"
                  ELSE ~open(pause(markets[i]).m, now).ok]_vars

\* An open_market by the operator succeeded on a funded market before its
\* end_time, and the stored stage is Open.
C11_Witness ==
  /\ lastOp.op = "open_market"
  /\ lastOp.ok
  /\ markets[lastOp.market_id + 1].stage = "Open"
  /\ markets[lastOp.market_id + 1].deposited_collateral
       >= markets[lastOp.market_id + 1].minimum_deposit
  /\ now < markets[lastOp.market_id + 1].end_time

\* C12: deposited_collateral changes only through deposit while the market
\* is Pending, and each change is an increase by the deposited amount; deposit
\* in any other stage fails, and no other operation changes the field.
C12_CollateralOnlyByPendingDeposit ==
  [][/\ \A i \in 1..Len(markets) :
          markets'[i].deposited_collateral # markets[i].deposited_collateral
            => /\ lastOp'.op = "deposit"
               /\ lastOp'.market_id = i - 1
               /\ markets[i].stage = "Pending"
               /\ markets'[i].deposited_collateral
                    = markets[i].deposited_collateral + lastOp'.amount
     /\ (lastOp'.op = "deposit" /\ Pre(lastOp').stage # "Pending")
          => (~lastOp'.ok /\ markets' = markets)]_vars

\* C13: fees_accrued never decreases except in withdraw_fees, which requires
\* fees_accrued > 0, sets it to 0 and in the same step requests one transfer
\* of exactly the previously accrued amount to fee_owner; withdraw_fees with
\* fees_accrued = 0 fails and requests no transfer.
C13_FeesOnlyWithdrawnWhole ==
  [][/\ \A i \in 1..Len(markets) :
          markets'[i].fees_accrued < markets[i].fees_accrued
            => (lastOp'.op = "withdraw_fees" /\ lastOp'.market_id = i - 1)
     /\ lastOp'.op = "withdraw_fees"
          => IF Pre(lastOp').fees_accrued > 0
             THEN /\ lastOp'.ok
                  /\ Post(lastOp').fees_accrued = 0
                  /\ lastOp'.transfer
                       = Transfer(Pre(lastOp').fee_owner, Pre(lastOp').fees_accrued)
             ELSE /\ ~lastOp'.ok
                  /\ ~lastOp'.transfer.some
                  /\ markets' = markets]_vars

\* A withdraw_fees succeeded: a positive amount goes to fee_owner and the
\* stored fees_accrued is 0.
C13_Witness ==
  /\ lastOp.op = "withdraw_fees"
  /\ lastOp.ok
  /\ lastOp.transfer.some
  /\ lastOp.transfer.amount > 0
  /\ lastOp.transfer.to = markets[lastOp.market_id + 1].fee_owner
  /\ markets[lastOp.market_id + 1].fees_accrued = 0

\* The integer sum over i of balance[i] * W[i].
RECURSIVE Dot(_, _)
Dot(b, w) ==
  IF b = << >> \/ w = << >> THEN 0
  ELSE Head(b) * Head(w) + Dot(Tail(b), Tail(w))

WeightedSum(m, account_id) ==
  Dot(get_or_create_balances(m, account_id), m.payouts.v)

\* C14: redeem fails unless the market is Finalized; on a Resolved market
\* with weights W a redeem that succeeds requests a transfer of exactly the
\* integer sum over i of balance[i] * W[i] to the account, it succeeds
\* whenever that sum is positive and fits a Balance, and it fails with no
\* transfer when the sum is zero.
C14_RedeemPaysWeightedSum ==
  [][lastOp'.op = "redeem"
     => /\ ~Finalized(Pre(lastOp').stage)
             => (~lastOp'.ok /\ ~lastOp'.transfer.some)
        /\ Pre(lastOp').stage = "Resolved"
             => /\ lastOp'.ok
                     => lastOp'.transfer
                          = Transfer(lastOp'.account,
                                     WeightedSum(Pre(lastOp'), lastOp'.account))
                /\ (/\ WeightedSum(Pre(lastOp'), lastOp'.account) > 0
                    /\ WeightedSum(Pre(lastOp'), lastOp'.account) < U128_LIMIT)
                     => lastOp'.ok
                /\ WeightedSum(Pre(lastOp'), lastOp'.account) = 0
                     => (~lastOp'.ok /\ ~lastOp'.transfer.some)]_vars

C17_OutcomeBalance ==
  [][/\ \A i \in 1..Len(markets'), a \in Accounts :
          \A o \in 0..(markets'[i].outcomes - 1) :
            /\ i > Len(markets) => ~outcome_balance(markets'[i], a, o).some
            /\ (/\ i <= Len(markets)
                /\ ~outcome_balance(markets[i], a, o).some
                /\ outcome_balance(markets'[i], a, o).some)
                 => /\ lastOp'.op \in TradingOps
                    /\ lastOp'.ok
                    /\ lastOp'.account = a
                    /\ lastOp'.market_id = i - 1
            /\ (i <= Len(markets) /\ outcome_balance(markets[i], a, o).some)
                 => outcome_balance(markets'[i], a, o).some
            /\ outcome_balance(markets'[i], a, o).some
                 => outcome_balance(markets'[i], a, o).v = Held(markets'[i], a, o)
     /\ (lastOp'.op \in TradingOps /\ lastOp'.ok)
          => \A o \in 0..(Post(lastOp').outcomes - 1) :
               outcome_balance(Post(lastOp'), lastOp'.account, o).some
     /\ (/\ lastOp'.op = "credit"
         /\ lastOp'.ok
         /\ ~Pre(lastOp').accounts[lastOp'.account].some)
          => \A o \in 0..(Post(lastOp').outcomes - 1) :
               outcome_balance(Post(lastOp'), lastOp'.account, o)
                 = [some |-> TRUE,
                    v |-> IF o = lastOp'.outcome_id THEN lastOp'.num_shares ELSE 0]]_vars

\* After a first credit(A, i, n), n > 0: outcome_balance(A, i) = n, the other
\* outcome reads 0 and the other account has no record.
C17_Witness ==
  /\ lastOp.op = "credit"
  /\ lastOp.ok
  /\ lastOp.num_shares > 0
  /\ outcome_balance(markets[lastOp.market_id + 1], lastOp.account, lastOp.outcome_id)
       = [some |-> TRUE, v |-> lastOp.num_shares]
  /\ outcome_balance(markets[lastOp.market_id + 1], lastOp.account,
                     1 - lastOp.outcome_id)
       = [some |-> TRUE, v |-> 0]
  /\ \E a \in Accounts :
       ~outcome_balance(markets[lastOp.market_id + 1], a, lastOp.outcome_id).some

\* C18: the fee charged on every buy and every sell is exactly
\* floor(base_price / 100) * trade_fee_bps: fees_accrued rises by it, a buy
\* returns payment - base_price - fee and a sell pays base_price - fee; the
\* fee is 0 whenever base_price < 100.
C18_FeeIsPercentOfPrice ==
  [][/\ (lastOp'.op = "buy" /\ lastOp'.ok)
          => /\ lastOp'.base_price
                  = calc_price_without_fee(Pre(lastOp'), lastOp'.outcome_id,
                                           lastOp'.num_shares, "Buy").v
             /\ Post(lastOp').fees_accrued - Pre(lastOp').fees_accrued
                  = (lastOp'.base_price \div 100) * Pre(lastOp').trade_fee_bps
             /\ lastOp'.ret
                  = lastOp'.amount - lastOp'.base_price
                      - (lastOp'.base_price \div 100) * Pre(lastOp').trade_fee_bps
     /\ (lastOp'.op = "sell" /\ lastOp'.ok)
          => /\ lastOp'.base_price
                  = calc_price_without_fee(Pre(lastOp'), lastOp'.outcome_id,
                                           lastOp'.num_shares, "Sell").v
             /\ Post(lastOp').fees_accrued - Pre(lastOp').fees_accrued
                  = (lastOp'.base_price \div 100) * Pre(lastOp').trade_fee_bps
             /\ lastOp'.transfer.amount
                  = lastOp'.base_price
                      - (lastOp'.base_price \div 100) * Pre(lastOp').trade_fee_bps
     /\ \A i \in 1..Len(markets), base_price \in 0..99 :
          calc_fee(markets[i], base_price) = 0]_vars

\* A buy at a base_price of at least 100 in a market with a fee rate above 0
\* succeeded and was charged a positive fee.
C18_Witness ==
  /\ lastOp.op = "buy"
  /\ lastOp.ok
  /\ lastOp.base_price >= 100
  /\ markets[lastOp.market_id + 1].trade_fee_bps > 0
  /\ lastOp.fee > 0
  /\ markets[lastOp.market_id + 1].fees_accrued >= lastOp.fee

\* The exact products of a redeem: balance[i] * W[i].
Products(m, account_id) ==
  [k \in 1..Len(m.payouts.v) |->
     get_or_create_balances(m, account_id)[k] * m.payouts.v[k]]

\* C19: every addition, multiplication and subtraction on Balance in the
\* collateral deposit, the payout vector and the payout computation is
\* overflow-checked: when the exact result does not fit a Balance the call
\* fails, requests no transfer and leaves the stored markets unchanged, so
\* no stored or transferred amount is a wrapped value.
C19_OverflowChecked ==
  [][/\ (/\ lastOp'.op = "deposit"
         /\ Pre(lastOp').deposited_collateral + lastOp'.amount >= U128_LIMIT)
          => (~lastOp'.ok /\ markets' = markets)
     /\ (lastOp'.op = "resolve_market" /\ SumSeq(lastOp'.payouts) >= U128_LIMIT)
          => (~lastOp'.ok /\ markets' = markets)
     /\ (/\ lastOp'.op = "redeem"
         /\ Pre(lastOp').stage = "Resolved"
         /\ \/ SumSeq(Products(Pre(lastOp'), lastOp'.account)) >= U128_LIMIT
            \/ \E k \in 1..Len(Pre(lastOp').payouts.v) :
                 Products(Pre(lastOp'), lastOp'.account)[k] >= U128_LIMIT)
          => (~lastOp'.ok /\ ~lastOp'.transfer.some /\ markets' = markets)]_vars

\* C20: in sell, withdraw_fees and redeem the transfer request leaves the
\* contract only with the operation's mutation already in the stored market
\* (the seller's balance lowered and the fee accrued, fees_accrued zeroed,
\* nothing for redeem); a failed operation requests no transfer and stores
\* nothing; and the delivery of a transfer request, whatever becomes of the
\* transfer, changes no stored market.
C20_TransferAfterCommit ==
  [][/\ lastOp'.op \in {"sell", "withdraw_fees", "redeem"}
          => /\ ~lastOp'.ok => (~lastOp'.transfer.some /\ markets' = markets)
             /\ lastOp'.ok => lastOp'.transfer.some
             /\ (lastOp'.transfer.some /\ lastOp'.op = "sell")
                  => /\ Held(Post(lastOp'), lastOp'.account, lastOp'.outcome_id)
                          = Held(Pre(lastOp'), lastOp'.account, lastOp'.outcome_id)
                              - lastOp'.num_shares
                     /\ Post(lastOp').accounts[lastOp'.account].some
                     /\ Post(lastOp').fees_accrued
                          = Pre(lastOp').fees_accrued + lastOp'.fee
             /\ (lastOp'.transfer.some /\ lastOp'.op = "withdraw_fees")
                  => /\ Post(lastOp').fees_accrued = 0
                     /\ lastOp'.transfer.amount = Pre(lastOp').fees_accrued
             /\ (lastOp'.transfer.some /\ lastOp'.op = "redeem")
                  => markets' = markets
     /\ lastOp'.op \notin {"sell", "withdraw_fees", "redeem"}
          => ~lastOp'.transfer.some
     /\ lastOp' = NoOp => markets' = markets]_vars

\* A sell succeeded: its transfer request to the seller is pending and the
\* stored market already holds the fee.
C20_Witness ==
  /\ lastOp.op = "sell"
  /\ lastOp.ok
  /\ lastOp.transfer = Transfer(lastOp.account, lastOp.base_price - lastOp.fee)
  /\ lastOp.transfer.amount > 0
  /\ lastOp.fee > 0
  /\ markets[lastOp.market_id + 1].fees_accrued >= lastOp.fee

\* C21: create_market appends exactly one market and returns an id equal to
\* the number of markets that existed before the call; ids are sequential and
\* never reused, the market count never decreases and changes in no other
\* call, and the new market starts Pending with an all-zero shares vector,
\* zero deposited_collateral, zero fees_accrued and no payout vector.
C21_CreateAppendsPending ==
  [][/\ Len(markets') >= Len(markets)
     /\ Len(markets') # Len(markets) => lastOp'.op = "create_market"
     /\ \A i \in 1..Len(markets) : markets'[i].id = markets[i].id
     /\ \A i \in 1..Len(markets') : markets'[i].id = i - 1
     /\ lastOp'.op = "create_market"
          => /\ lastOp'.ok
             /\ Len(markets') = Len(markets) + 1
             /\ SubSeq(markets', 1, Len(markets)) = markets
             /\ lastOp'.ret = Len(markets)
             /\ markets'[Len(markets')].id = Len(markets)
             /\ markets'[Len(markets')].stage = "Pending"
             /\ markets'[Len(markets')].shares
                  = Zeros(markets'[Len(markets')].outcomes)
             /\ markets'[Len(markets')].deposited_collateral = 0
             /\ markets'[Len(markets')].fees_accrued = 0
             /\ markets'[Len(markets')].payouts = NoneVec]_vars

\* A second market was created, with id 1, after the first had been opened
\* and traded.
C21_Witness ==
  /\ lastOp.op = "create_market"
  /\ lastOp.ret = 1
  /\ Len(markets) = 2
  /\ markets[2].id = 1
  /\ markets[2].stage = "Pending"
  /\ markets[1].stage = "Open"
  /\ markets[1].accounts["alice"].some

\* C30: every operation addressed to one market id leaves every other
\* stored market as it was (stage, shares, balances, deposited_collateral,
\* fees_accrued and payouts included), and a failed operation leaves all
\* markets unchanged.
C30_MarketsIndependent ==
  [][lastOp'.op \notin {"none", "create_market"}
     => /\ \A i \in 1..Len(markets) :
             i # lastOp'.market_id + 1 => markets'[i] = markets[i]
        /\ Len(markets') = Len(markets)
        /\ ~lastOp'.ok => markets' = markets]_vars

\* A buy succeeded on market 1 while market 0 is Resolved and holds
\* balances and fees of its own.
C30_Witness ==
  /\ Len(markets) = 2
  /\ lastOp.op = "buy"
  /\ lastOp.ok
  /\ lastOp.market_id = 1
  /\ markets[2].accounts["alice"].some
  /\ markets[1].stage = "Resolved"
  /\ markets[1].accounts["alice"].some

\* C22: only the market's oracle account can resolve the market:
\* resolve_market called by any other account fails and leaves stage and
\* payouts unchanged.
C22_OnlyOracleResolves ==
  [][(lastOp'.op = "resolve_market" /\ lastOp'.account # Pre(lastOp').oracle)
     => /\ ~lastOp'.ok
        /\ Post(lastOp').stage = Pre(lastOp').stage
        /\ Post(lastOp').payouts = Pre(lastOp').payouts]_vars

\* The exact absolute cost delta of n shares of an outcome (0-based), in FP
\* units: |cost(q + n e_i) - cost(q)| for a buy (sign 1) and
\* |cost(q - n e_i) - cost(q)| for a sell (sign -1), the quantity added
\* exactly.
ExactDelta(m, outcome_id, num_shares, sign) ==
  Abs(CostOf(m.liquidity, [m.shares EXCEPT ![outcome_id + 1] = @ + sign * num_shares])
        - CostOf(m.liquidity, m.shares))

\* A base price in FP units per collateral token: the price is a multiple of
\* 10^(collateral_decimals - ROUNDING_DECIMALS) smallest units.
PriceInFP(m, price) ==
  (price \div Pow(10, m.collateral_decimals - ROUNDING_DECIMALS))
    * (FP \div Pow(10, ROUNDING_DECIMALS))

\* C23: for every stored market, outcome and quantity, the buy base_price
\* is never below, and the sell base_price never above, the exact absolute
\* cost delta scaled by 10^collateral_decimals.
C23_RoundingFavoursMarket ==
  \A i \in 1..Len(markets) :
    \A o \in 0..(markets[i].outcomes - 1), n \in 0..MaxNumShares :
      /\ PriceInFP(markets[i], calc_price_without_fee(markets[i], o, n, "Buy").v)
           >= ExactDelta(markets[i], o, n, 1)
      /\ PriceInFP(markets[i], calc_price_without_fee(markets[i], o, n, "Sell").v)
           <= ExactDelta(markets[i], o, n, -1)

\* The largest element of a non-empty sequence.
RECURSIVE MaxOf(_)
MaxOf(s) ==
  IF Len(s) = 1 THEN s[1]
  ELSE IF Head(s) > MaxOf(Tail(s)) THEN Head(s) ELSE MaxOf(Tail(s))

\* b * (m + ln(sum_i exp(q[i]/b - m))) for a shift m.
CostShiftedBy(liquidity, volumes, m) ==
  liquidity * (m + Ln(shift_exp_sum(m, Coefficients(liquidity, volumes))))

\* C24: for every liquidity b > 0 and every shares vector q (vectors in
\* which every entry is negative included), the shift m used by cost and
\* price equals max over i of q[i]/b, and cost(b, q) is
\* b * (m + ln(sum_i exp(q[i]/b - m))) with that m.
C24_ShiftIsMax ==
  lmsrCall.fn \in {"cost", "compute_price"} /\ lmsrCall.done
    => /\ lmsrCall.max = MaxOf(Coefficients(lmsrCall.liquidity, lmsrCall.volumes))
       /\ lmsrCall.fn = "cost"
            => lmsrCall.result
                 = CostShiftedBy(lmsrCall.liquidity, lmsrCall.volumes,
                                 MaxOf(Coefficients(lmsrCall.liquidity,
                                                    lmsrCall.volumes)))

\* C25: in a market with at least two outcomes, a successful buy of a
\* positive number of shares of outcome i strictly raises the price of i and
\* strictly lowers the price of every other outcome, and a successful sell
\* of a positive number of shares of i strictly lowers the price of i and
\* strictly raises every other price.
C25_PricesMove ==
  [][(/\ lastOp'.op \in {"buy", "sell"}
      /\ lastOp'.ok
      /\ lastOp'.num_shares > 0
      /\ Pre(lastOp').outcomes >= 2)
     => \A o \in 0..(Pre(lastOp').outcomes - 1) :
          IF (lastOp'.op = "buy") <=> (o = lastOp'.outcome_id)
          THEN calculate_prices(Post(lastOp'))[o + 1]
                 > calculate_prices(Pre(lastOp'))[o + 1]
          ELSE calculate_prices(Post(lastOp'))[o + 1]
                 < calculate_prices(Pre(lastOp'))[o + 1]]_vars

\* C26: calc_buy_price(outcome, n) is the cost base_price + fee that a buy of
\* n shares of outcome is charged in the same state, and
\* calc_sell_price(outcome, n) is the sell_amount base_price - fee that a sell
\* of n shares of outcome pays out in the same state.
C26_QuotesMatchTrades ==
  [][/\ (lastOp'.op = "buy" /\ lastOp'.ok)
        => /\ calc_buy_price(Pre(lastOp'), lastOp'.outcome_id,
                             lastOp'.num_shares).ok
           /\ calc_buy_price(Pre(lastOp'), lastOp'.outcome_id,
                             lastOp'.num_shares).v
                = lastOp'.amount - lastOp'.ret
     /\ (lastOp'.op = "sell" /\ lastOp'.ok)
        => /\ calc_sell_price(Pre(lastOp'), lastOp'.outcome_id,
                              lastOp'.num_shares).ok
           /\ calc_sell_price(Pre(lastOp'), lastOp'.outcome_id,
                              lastOp'.num_shares).v
                = lastOp'.transfer.amount]_vars

\* What a buy of n shares of outcome o by account a, paid exactly, followed
\* at once by a sell of the same n shares, makes of market m: bought is the
\* result of the buy, sold the result of the sell on the market it left.
RoundTripHolds(m, a, o, n, bought, sold) ==
  (bought.ok /\ sold.ok)
    => /\ sold.transfer.amount <= BuyCost(m, o, n)
       /\ sold.m.shares = m.shares
       /\ \A k \in 0..(m.outcomes - 1) : Held(sold.m, a, k) = Held(m, a, k)

RoundTripFrom(m, a, o, n, bought) ==
  RoundTripHolds(m, a, o, n, bought,
                 internal_sell(bought.m, now, a, 0, n, o))

\* C27: on any Open, unexpired market, for any outcome and quantity n, an
\* account that buys n shares and immediately sells the same n shares
\* receives a sell_amount no greater than the cost it paid, and the market's
\* shares vector and the account's balances are back at their values before
\* the buy.
C27_BuySellRoundTrip ==
  \A i \in 1..Len(markets) :
    Tradable(markets[i], now)
      => \A a \in Accounts, o \in 0..(markets[i].outcomes - 1),
            n \in 1..MaxNumShares :
           RoundTripFrom(markets[i], a, o, n,
                         internal_buy(markets[i], now, a,
                                      BuyCost(markets[i], o, n), n, o))

\* C28: every stored market whose stage is not Pending has outcome count > 0
\* and deposited_collateral >= minimum_deposit, and a stored market leaves
\* Pending only by becoming Open through open_market, so that Paused and
\* Finalized are reached only after the market has been opened.
C28_OpenedMarketsAreValid ==
  [][/\ \A i \in 1..Len(markets') :
          markets'[i].stage # "Pending"
            => /\ markets'[i].outcomes > 0
               /\ markets'[i].deposited_collateral >= markets'[i].minimum_deposit
     /\ \A i \in 1..Len(markets') :
          IF i <= Len(markets)
          THEN (markets[i].stage = "Pending" /\ markets'[i].stage # "Pending")
                 => /\ markets'[i].stage = "Open"
                    /\ lastOp'.op = "open_market"
                    /\ lastOp'.market_id = i - 1
          ELSE markets'[i].stage = "Pending"]_vars

\* A stored market with outcomes and the minimum deposit has been opened and
\* then finalized by resolve_market.
C28_Witness ==
  /\ lastOp.op = "resolve_market"
  /\ lastOp.ok
  /\ Finalized(markets[lastOp.market_id + 1].stage)
  /\ markets[lastOp.market_id + 1].outcomes > 0
  /\ markets[lastOp.market_id + 1].deposited_collateral
       >= markets[lastOp.market_id + 1].minimum_deposit

\* C29: open_market succeeds only when the signer is the market's operator;
\* called by any other signer it fails and the stored market's stage is
\* unchanged.
C29_OnlyOperatorOpens ==
  [][lastOp'.op = "open_market"
       => /\ lastOp'.ok => lastOp'.account = Pre(lastOp').operator
          /\ lastOp'.account # Pre(lastOp').operator
               => /\ ~lastOp'.ok
                  /\ Post(lastOp').stage = Pre(lastOp').stage]_vars

\* An open_market signed by an account other than the operator was rejected
\* on a Pending market that the operator could have opened.
C29_Witness ==
  /\ lastOp.op = "open_market"
  /\ ~lastOp.ok
  /\ lastOp.account # markets[lastOp.market_id + 1].operator
  /\ OpenAllowed(markets[lastOp.market_id + 1], now)

====
